---------------------------- MODULE Spec2Model ----------------------------
(***************************************************************************)
(* Room / session coordination layer of the Antar translation relay.      *)
(*                                                                         *)
(* The repository holds two variants of the same server: src/server.js    *)
(* and src/unnamed/part_000.  Both are modelled; the variable `variant`    *)
(* is chosen once, in Init, and every handler follows the code of the      *)
(* variant that is running.                                                *)
(*                                                                         *)
(* State: the two module-level maps (activeRooms, userRoles), the open     *)
(* sockets, the pending setTimeout callbacks and the async message         *)
(* handlers suspended at an await.  Every handler runs to completion       *)
(* between awaits (Node's single-threaded event loop), so a handler is     *)
(* one action, and an async handler is one action per segment between      *)
(* its awaits.                                                             *)
(*                                                                         *)
(* Not modelled: hotelName and createdAt of a room, the ids/timestamps of  *)
(* a message and the display names of languages (no control flow reads     *)
(* them), and the socket.io adapter rooms (a broadcast is recorded by the  *)
(* room name it is addressed to).                                          *)
(***************************************************************************)
EXTENDS Naturals, Sequences, FiniteSets

VARIABLES
    variant,      \* which server file is running: "server" | "part"
    connected,    \* socket ids of the open connections
    activeRooms,  \* roomId -> [users, guestLanguage]
    userRoles,    \* socket.id -> [room, role, language]
    timers,       \* pending setTimeout cleanups, in firing order
    msgs,         \* async message handlers suspended at an await
    last          \* the handler segment that ran last, with what it emitted

vars == <<variant, connected, activeRooms, userRoles, timers, msgs, last>>

---------------------------------------------------------------------------
(* Bounds *)

\* pending cleanup timers
MaxTimers == 1
\* message handlers suspended at an await at the same time
MaxMsgs == 1

\* pending cleanup timers in the specification of the cleanup delay
MaxPending == 2

\* room identities clients use
RoomIds == {"A", "B"}

---------------------------------------------------------------------------
(* JavaScript values *)

undefined == "undefined"
null == "null"

\* the falsy values a payload field or a stored field can hold
Truthy(v) == v \notin {undefined, null, ""}

\* a || b
Or(a, b) == IF Truthy(a) THEN a ELSE b

\* payload fields: a field may be missing (undefined)
PayloadRooms == RoomIds \cup {undefined}
PayloadLangs == {undefined, "", "bn-IN"}

\* Map.set / Map.delete
MapSet(m, k, v) == [x \in DOMAIN m \cup {k} |-> IF x = k THEN v ELSE m[x]]
MapDelete(m, k) == [x \in DOMAIN m \ {k} |-> m[x]]

\* Set.delete / Set.add on an insertion-ordered Set (no duplicates)
SetDelete(s, x) == SelectSeq(s, LAMBDA y : y # x)
SetHas(s, x) == \E i \in 1..Len(s) : s[i] = x
SetAdd(s, x) == IF SetHas(s, x) THEN s ELSE Append(s, x)

---------------------------------------------------------------------------
(* Events *)

\* one emitted event; scope "priv" = socket.emit, "room" = io.to(room).emit,
\* "others" = socket.to(room).emit
Event(ev, scope, to, status, speaker, src, tgt, n) ==
    [ev |-> ev, scope |-> scope, to |-> to, status |-> status,
     speaker |-> speaker, src |-> src, tgt |-> tgt, n |-> n]

ErrorEv(c) == Event("error", "priv", c, "-", "-", "-", "-", 0)
StatusEv(room, status, speaker) ==
    Event("processing_status", "room", room, status, speaker, "-", "-", 0)
TranslationEv(room, speaker, src, tgt) ==
    Event("translation", "room", room, "-", speaker, src, tgt, 0)
RoomJoinedEv(c, room, role, lang) ==
    Event("room_joined", "priv", c, "-", role, lang, "-", 0)
UserJoinedEv(room, role, lang) ==
    Event("user_joined", "others", room, "-", role, lang, "-", 0)
UserLeftEv(room, role) ==
    Event("user_left", "others", room, "-", role, "-", "-", 0)
RoomStatsEv(room, n, gl) ==
    Event("room_stats", "room", room, "-", "-", "-", gl, n)

\* a collaborator call
Call(fn, a, b) == [fn |-> fn, a |-> a, b |-> b]

\* what `last` records of a handler segment
Step(op, res, c, room, role, language, out, mlog, calls) ==
    [op |-> op, res |-> res, conn |-> c, room |-> room, role |-> role,
     language |-> language, out |-> out, mlog |-> mlog, calls |-> calls]

---------------------------------------------------------------------------
(* Stores *)

NewRoom == [users |-> <<>>, guestLanguage |-> null]

HasSession(c) == c \in DOMAIN userRoles
HasRoom(r) == r \in DOMAIN activeRooms


\* languages the code names
StaffLanguage == "en-US"
DefaultGuestLanguage == "hi-IN"

\* first member of `users` (in insertion order, from index i) that has a
\* Session with role guest: the loop of server.js getGuestLanguageInRoom
RECURSIVE FirstGuestLanguage(_, _)
FirstGuestLanguage(users, i) ==
    IF i > Len(users) THEN DefaultGuestLanguage
    ELSE IF HasSession(users[i]) /\ userRoles[users[i]].role = "guest"
         THEN Or(userRoles[users[i]].language, DefaultGuestLanguage)
         ELSE FirstGuestLanguage(users, i + 1)

\* getGuestLanguageInRoom(room), in the variant that is running
getGuestLanguageInRoom(room) ==
    IF variant = "server"
    THEN IF ~HasRoom(room) THEN DefaultGuestLanguage
         ELSE IF Truthy(activeRooms[room].guestLanguage)
              THEN activeRooms[room].guestLanguage
              ELSE FirstGuestLanguage(activeRooms[room].users, 1)
    ELSE IF HasRoom(room)
         THEN Or(activeRooms[room].guestLanguage, DefaultGuestLanguage)
         ELSE DefaultGuestLanguage

---------------------------------------------------------------------------
(* join_room *)

\* part_000 rejects a join without room or role; server.js has no such check
JoinRejected(room, role) ==
    variant = "part" /\ (~Truthy(room) \/ ~Truthy(role))

\* the language stored in the Session
JoinLanguage(role, language) ==
    IF variant = "server"
    THEN IF role = "receptionist" THEN StaffLanguage
         ELSE IF language = undefined THEN DefaultGuestLanguage ELSE language
    ELSE IF role = "receptionist" THEN Or(language, StaffLanguage)
         ELSE Or(language, DefaultGuestLanguage)

\* "leave previous": userRoles.get(socket.id)?.room, if truthy, loses c
LeavePrevious(rooms, c) ==
    LET prev == IF HasSession(c) THEN userRoles[c].room ELSE undefined
    IN  IF Truthy(prev) /\ prev \in DOMAIN rooms
        THEN [rooms EXCEPT ![prev].users = SetDelete(@, c)]
        ELSE rooms

\* the Room Store after join_room: leave previous, create if unknown, add
JoinRooms(c, room, role, lang) ==
    LET left == LeavePrevious(activeRooms, c)
        made == IF room \in DOMAIN left THEN left ELSE MapSet(left, room, NewRoom)
    IN  [made EXCEPT ![room].users = SetAdd(@, c),
                     ![room].guestLanguage = IF role = "guest" THEN lang ELSE @]

\* a join of `room` is seen by the cleanups pending for it
MarkRejoined(ts, room) ==
    [i \in 1..Len(ts) |->
        IF ts[i].room = room THEN [ts[i] EXCEPT !.rejoined = TRUE] ELSE ts[i]]

JoinRoom(c, room, role, language) ==
    /\ c \in connected
    /\ IF JoinRejected(room, role)
       THEN /\ last' = Step("join_room", "rejected", c, room, role, language,
                            <<ErrorEv(c)>>, <<>>, <<>>)
            /\ UNCHANGED <<activeRooms, userRoles, timers>>
       ELSE LET lang == JoinLanguage(role, language)
                rooms == JoinRooms(c, room, role, lang)
                stats == RoomStatsEv(room, Len(rooms[room].users),
                                     rooms[room].guestLanguage)
            IN  /\ activeRooms' = rooms
                /\ userRoles' = MapSet(userRoles, c,
                        [room |-> room, role |-> role, language |-> lang])
                /\ timers' = MarkRejoined(timers, room)
                /\ last' = Step("join_room", "joined", c, room, role, language,
                        IF variant = "server"
                        THEN <<RoomJoinedEv(c, room, role, lang),
                               UserJoinedEv(room, role, lang), stats>>
                        ELSE <<RoomJoinedEv(c, room, role, lang), stats,
                               UserJoinedEv(room, role, lang)>>,
                        <<>>, <<>>)
    /\ UNCHANGED <<variant, connected, msgs>>

---------------------------------------------------------------------------
(* disconnect and the deferred cleanup *)

\* the room object `r` of the disconnect handler after users.delete and the
\* clearing of guestLanguage (c has a Session whose room exists)
LeftRoom(c) ==
    [activeRooms[userRoles[c].room] EXCEPT
        !.users = SetDelete(@, c),
        !.guestLanguage = IF userRoles[c].role = "guest" THEN null ELSE @]

\* mutant: the room is deleted in the disconnect handler when it empties
DisconnectRooms_DeleteSync(c) ==
    IF HasSession(c) /\ HasRoom(userRoles[c].room)
    THEN IF Len(LeftRoom(c).users) = 0
         THEN MapDelete(activeRooms, userRoles[c].room)
         ELSE [activeRooms EXCEPT ![userRoles[c].room] = LeftRoom(c)]
    ELSE activeRooms

\* the Room Store after the disconnect of c
DisconnectRooms(c) ==
    IF HasSession(c) /\ HasRoom(userRoles[c].room)
    THEN [activeRooms EXCEPT ![userRoles[c].room] = LeftRoom(c)]
    ELSE activeRooms

\* does the disconnect of c call setTimeout?
SchedulesCleanup(c) ==
    /\ HasSession(c)
    /\ HasRoom(userRoles[c].room)
    /\ Len(LeftRoom(c).users) = 0

\* mutant: room_stats carries the size the member set had before the leave
DisconnectOut_CountBeforeLeave(c) ==
    IF HasSession(c) /\ HasRoom(userRoles[c].room)
    THEN <<UserLeftEv(userRoles[c].room, userRoles[c].role),
           RoomStatsEv(userRoles[c].room,
                       Len(activeRooms[userRoles[c].room].users),
                       LeftRoom(c).guestLanguage)>>
    ELSE <<>>

\* what the disconnect of c emits
DisconnectOut(c) ==
    IF HasSession(c) /\ HasRoom(userRoles[c].room)
    THEN <<UserLeftEv(userRoles[c].room, userRoles[c].role),
           RoomStatsEv(userRoles[c].room, Len(LeftRoom(c).users),
                       LeftRoom(c).guestLanguage)>>
    ELSE <<>>

\* the disconnect handler, with at most maxPending cleanups pending
DisconnectBounded(c, maxPending) ==
    /\ c \in connected
    /\ SchedulesCleanup(c) => Len(timers) < maxPending
    /\ connected' = connected \ {c}
    /\ activeRooms' = DisconnectRooms(c)
    /\ userRoles' = MapDelete(userRoles, c)
    /\ timers' = IF SchedulesCleanup(c)
                 THEN Append(timers, [room |-> userRoles[c].room, rejoined |-> FALSE])
                 ELSE timers
    /\ last' = IF HasSession(c)
               THEN Step("disconnect",
                         IF SchedulesCleanup(c) THEN "scheduled" ELSE "left",
                         c, userRoles[c].room, userRoles[c].role, "-",
                         DisconnectOut(c), <<>>, <<>>)
               ELSE Step("disconnect", "noop", c, "-", "-", "-", <<>>, <<>>, <<>>)
    /\ UNCHANGED <<variant, msgs>>

Disconnect(c) == DisconnectBounded(c, MaxTimers)

\* mutant: the callback does not look at the member set again
CleanupDeletes_NoRecheck(room) ==
    HasRoom(room)

\* mutant: the callback tests the member set the wrong way round
CleanupDeletes_Inverted(room) ==
    HasRoom(room) /\ Len(activeRooms[room].users) > 0

\* the setTimeout callback: deletes the room if it exists and is empty
CleanupDeletes(room) ==
    HasRoom(room) /\ Len(activeRooms[room].users) = 0

\* all cleanups have the same delay, so they fire in the order they were set
CleanupFire ==
    /\ Len(timers) > 0
    /\ LET room == Head(timers).room
       IN  /\ activeRooms' = IF CleanupDeletes(room)
                             THEN MapDelete(activeRooms, room) ELSE activeRooms
           /\ last' = Step("cleanup",
                           IF CleanupDeletes(room) THEN "deleted" ELSE "kept",
                           "-", room, "-", "-", <<>>, <<>>, <<>>)
    /\ timers' = Tail(timers)
    /\ UNCHANGED <<variant, connected, userRoles, msgs>>

---------------------------------------------------------------------------
(* connection and POST /api/generate-room *)

\* nothing refers to the socket id c any more
Unreferenced(c) ==
    /\ c \notin connected
    /\ ~HasSession(c)
    /\ \A r \in DOMAIN activeRooms : ~SetHas(activeRooms[r].users, c)
    /\ \A i \in 1..Len(msgs) : msgs[i].conn # c

\* a new socket: socket.id is unique, so it is an id nothing refers to
Connect(c) ==
    /\ Unreferenced(c)
    /\ connected' = connected \cup {c}
    /\ last' = Step("connect", "-", c, "-", "-", "-", <<>>, <<>>, <<>>)
    /\ UNCHANGED <<variant, activeRooms, userRoles, timers, msgs>>

\* the generated roomId is fresh (timestamp plus random suffix)
GenerateRoom(room) ==
    /\ room \in RoomIds \ DOMAIN activeRooms
    /\ activeRooms' = MapSet(activeRooms, room, NewRoom)
    /\ last' = Step("generate_room", "-", "-", room, "-", "-", <<>>, <<>>, <<>>)
    /\ UNCHANGED <<variant, connected, userRoles, timers, msgs>>

---------------------------------------------------------------------------
(* Message pipeline: audio_message and text_message *)

\* mutant: any Session passes, whatever its room
Authorized_AnySession(c, room) ==
    HasSession(c)

\* the membership check at the head of both handlers
Authorized(c, room) ==
    HasSession(c) /\ userRoles[c].room = room

\* the language handed to transcribeOnce
SttLanguage(role, language, infoLang) ==
    IF variant = "server"
    THEN Or(language, infoLang)
    ELSE IF role = "guest" THEN Or(language, infoLang) ELSE StaffLanguage

\* mutant: a staff message does not read the room; its target is the default
ResolveDirection_DefaultTarget(room, role, language, infoLang) ==
    IF role = "guest"
    THEN [src |-> Or(language, infoLang), tgt |-> StaffLanguage]
    ELSE [src |-> StaffLanguage, tgt |-> DefaultGuestLanguage]

\* sourceLanguage / targetLanguage, read when the translation call starts
ResolveDirection(room, role, language, infoLang) ==
    IF role = "guest"
    THEN [src |-> Or(language, infoLang), tgt |-> StaffLanguage]
    ELSE [src |-> StaffLanguage, tgt |-> getGuestLanguageInRoom(room)]

\* the room the catch block addresses its processing_status to: the room of
\* the sender's Session when the catch runs; "none" = nothing is emitted
CatchRoom(c) ==
    LET room == IF HasSession(c) THEN userRoles[c].room ELSE undefined
    IN  IF variant = "server" THEN Or(room, "") ELSE Or(room, "none")

\* what the catch block emits
CatchOut(m) ==
    IF CatchRoom(m.conn) = "none"
    THEN <<ErrorEv(m.conn)>>
    ELSE <<ErrorEv(m.conn), StatusEv(CatchRoom(m.conn), "error", "-")>>

\* mutant: the emptiness of the transcript is tested after the translating
\* status has gone out
EmptyOut_AfterTranslating(m) ==
    <<StatusEv(m.room, "translating", m.role), StatusEv(m.room, "error", "-")>>

\* what the audio handler emits when the transcript is empty
EmptyOut(m) ==
    <<StatusEv(m.room, "error", "-")>>

\* mutant: the result goes to the room of the sender's Session
CompleteOut_ToSenderRoom(m) ==
    <<TranslationEv(CatchRoom(m.conn), m.role, m.src, m.tgt),
      StatusEv(CatchRoom(m.conn), "complete", "-")>>

\* mutant: the complete status goes out before the translation
CompleteOut_StatusFirst(m) ==
    <<StatusEv(m.room, "complete", "-"),
      TranslationEv(m.room, m.role, m.src, m.tgt)>>

\* what a handler emits once translateText has returned
CompleteOut(m) ==
    <<TranslationEv(m.room, m.role, m.src, m.tgt),
      StatusEv(m.room, "complete", "-")>>

\* the events of `out` that are broadcast to a room
Broadcasts(out) == SelectSeq(out, LAMBDA e : e.scope = "room")

\* the segment from "translating" to the await of translateText; `log` and
\* `calls` are what the message has emitted and called so far
StartTranslate(m) ==
    LET d == ResolveDirection(m.room, m.role, m.language, m.infoLang)
    IN  [m EXCEPT !.pc = "translate", !.src = d.src, !.tgt = d.tgt,
                  !.mlog = Append(@, StatusEv(m.room, "translating", m.role)),
                  !.calls = Append(@, Call("translateText", d.src, d.tgt))]

NewMessage(kind, c, room, role, language) ==
    [kind |-> kind, conn |-> c, room |-> room, role |-> role,
     language |-> language, infoLang |-> userRoles[c].language,
     pc |-> "start", src |-> "-", tgt |-> "-", mlog |-> <<>>, calls |-> <<>>]

\* the audio handler up to the await of transcribeOnce
StartTranscribe(m) ==
    [m EXCEPT !.pc = "transcribe",
              !.mlog = Append(@, StatusEv(m.room, "transcribing", m.role)),
              !.calls = Append(@, Call("transcribeOnce",
                                       SttLanguage(m.role, m.language, m.infoLang), "-"))]

Remove(s, i) == [j \in 1..(Len(s) - 1) |-> IF j < i THEN s[j] ELSE s[j + 1]]

Unauthorized(op, c, room, role, language) ==
    /\ last' = Step(op, "unauthorized", c, room, role, language,
                    <<ErrorEv(c)>>, <<>>, <<>>)
    /\ UNCHANGED msgs

AudioMessage(c, room, role, language) ==
    /\ c \in connected
    /\ IF ~Authorized(c, room)
       THEN Unauthorized("audio_message", c, room, role, language)
       ELSE /\ Len(msgs) < MaxMsgs
            /\ LET m == StartTranscribe(NewMessage("audio", c, room, role, language))
               IN  /\ msgs' = Append(msgs, m)
                   /\ last' = Step("audio_message", "pending", c, room, role,
                                   language, m.mlog, m.mlog, m.calls)
    /\ UNCHANGED <<variant, connected, activeRooms, userRoles, timers>>

TextMessage(c, room, role, language) ==
    /\ c \in connected
    /\ IF ~Authorized(c, room)
       THEN Unauthorized("text_message", c, room, role, language)
       ELSE /\ Len(msgs) < MaxMsgs
            /\ LET m == StartTranslate(NewMessage("text", c, room, role, language))
               IN  /\ msgs' = Append(msgs, m)
                   /\ last' = Step("text_message", "pending", c, room, role,
                                   language, m.mlog, m.mlog, m.calls)
    /\ UNCHANGED <<variant, connected, activeRooms, userRoles, timers>>

\* the handler of message i ends in this segment, having emitted `out`
Finish(i, op, res, out) ==
    /\ msgs' = Remove(msgs, i)
    /\ last' = Step(op, res, msgs[i].conn, msgs[i].room, msgs[i].role,
                    msgs[i].language, out,
                    msgs[i].mlog \o Broadcasts(out), msgs[i].calls)

\* transcribeOnce settles: a transcript, an empty transcript, or a rejection
TranscribeReturn(i, outcome) ==
    /\ i \in 1..Len(msgs)
    /\ msgs[i].pc = "transcribe"
    /\ CASE outcome = "ok" ->
               LET m == StartTranslate(msgs[i])
               IN  /\ msgs' = [msgs EXCEPT ![i] = m]
                   /\ last' = Step("transcribe_return", "pending", m.conn, m.room,
                                   m.role, m.language,
                                   <<StatusEv(m.room, "translating", m.role)>>,
                                   m.mlog, m.calls)
         [] outcome = "empty" ->
               Finish(i, "transcribe_return", "empty", EmptyOut(msgs[i]))
         [] outcome = "throw" ->
               Finish(i, "transcribe_return", "caught", CatchOut(msgs[i]))
    /\ UNCHANGED <<variant, connected, activeRooms, userRoles, timers>>

\* translateText settles: a translation, or a rejection
TranslateReturn(i, outcome) ==
    /\ i \in 1..Len(msgs)
    /\ msgs[i].pc = "translate"
    /\ CASE outcome = "ok" ->
               Finish(i, "translate_return", "complete", CompleteOut(msgs[i]))
         [] outcome = "throw" ->
               Finish(i, "translate_return", "caught", CatchOut(msgs[i]))
    /\ UNCHANGED <<variant, connected, activeRooms, userRoles, timers>>

---------------------------------------------------------------------------
(* Specification *)

Variants == {"server", "part"}

Init ==
    /\ variant \in Variants
    /\ connected = {}
    /\ activeRooms = <<>>
    /\ userRoles = <<>>
    /\ timers = <<>>
    /\ msgs = <<>>
    /\ last = Step("init", "-", "-", "-", "-", "-", <<>>, <<>>, <<>>)

\* the lifecycle handlers, for sockets C and join payloads over R, Ro, L
Lifecycle(C, R, Ro, L) ==
    \/ \E c \in C : Connect(c)
    \/ \E c \in C, room \in R, role \in Ro, language \in L :
          JoinRoom(c, room, role, language)
    \/ \E c \in C : Disconnect(c)
    \/ CleanupFire

\* the message handlers, for sockets C and message payloads over R, Ro, L
Pipeline(C, R, Ro, L) ==
    \/ \E c \in C, room \in R, role \in Ro, language \in L :
          AudioMessage(c, room, role, language)
    \/ \E c \in C, room \in R, role \in Ro, language \in L :
          TextMessage(c, room, role, language)
    \/ \E i \in 1..MaxMsgs, outcome \in {"ok", "empty", "throw"} :
          TranscribeReturn(i, outcome)
    \/ \E i \in 1..MaxMsgs, outcome \in {"ok", "throw"} :
          TranslateReturn(i, outcome)

\* Room and session lifecycle: two sockets, every room payload (also a
\* missing room), a guest and a staff role, no requested language; and the
\* room-creation route.
Next ==
    \/ Lifecycle({"c1", "c2"}, PayloadRooms, {"guest", "receptionist"}, {undefined})
    \/ \E room \in RoomIds : GenerateRoom(room)

Spec == Init /\ [][Next]_vars

\* Message pipeline against the lifecycle: two guest sockets moving between
\* the rooms A and B, of which c1 sends messages.
NextPipeline ==
    \/ Lifecycle({"c1", "c2"}, RoomIds, {"guest"}, {undefined})
    \/ Pipeline({"c1"}, RoomIds, {"guest"}, {undefined})

SpecPipeline == Init /\ [][NextPipeline]_vars

\* Direction of staff messages: two sockets joining room A with every
\* language payload, c1 sending messages declared as receptionist or admin.
NextDirection ==
    \/ Lifecycle({"c1", "c2"}, {"A"}, {"guest", "receptionist"}, PayloadLangs)
    \/ Pipeline({"c1"}, {"A"}, {"receptionist", "admin"}, {undefined, "bn-IN"})

SpecDirection == Init /\ [][NextDirection]_vars

\* Validation and language of a join: one socket, room A or no room, every
\* role payload (also a missing role) and every language payload.
NextJoin ==
    Lifecycle({"c1"}, {"A", undefined},
              {"guest", "receptionist", "admin", undefined}, PayloadLangs)

SpecJoin == Init /\ [][NextJoin]_vars

\* Direction of guest messages: one socket joining room A as guest or
\* receptionist with every language payload and sending messages declared
\* as guest with every language payload.
NextGuest ==
    \/ Lifecycle({"c1"}, {"A"}, {"guest", "receptionist"}, PayloadLangs)
    \/ Pipeline({"c1"}, {"A"}, {"guest"}, PayloadLangs)

SpecGuest == Init /\ [][NextGuest]_vars

\* Cleanup delay: two guest sockets joining and leaving room A, with up to
\* MaxPending cleanups pending for it.
NextDebounce ==
    \/ \E c \in {"c1", "c2"} : Connect(c)
    \/ \E c \in {"c1", "c2"} : JoinRoom(c, "A", "guest", undefined)
    \/ \E c \in {"c1", "c2"} : DisconnectBounded(c, MaxPending)
    \/ CleanupFire

SpecDebounce == Init /\ [][NextDebounce]_vars

\* Staff messages against joins and leaves in room A: c1 joins as
\* receptionist or as guest (without a language) and sends messages declared
\* as receptionist; c2 joins as guest with language bn-IN.
NextRace ==
    \/ \E c \in {"c1", "c2"} : Connect(c)
    \/ \E role \in {"guest", "receptionist"} : JoinRoom("c1", "A", role, undefined)
    \/ JoinRoom("c2", "A", "guest", "bn-IN")
    \/ \E c \in {"c1", "c2"} : Disconnect(c)
    \/ CleanupFire
    \/ Pipeline({"c1"}, {"A"}, {"receptionist"}, {undefined})

SpecRace == Init /\ [][NextRace]_vars

---------------------------------------------------------------------------
(* Properties of the room and session lifecycle (specification Spec) *)

AllConns == {"c1", "c2"}

InRoom(c, r) == HasRoom(r) /\ SetHas(activeRooms[r].users, c)

\* C1: after every handler the two stores agree: a connection is in the
\* member set of room R exactly if it has a Session whose room is R (so it
\* is in at most one member set).
C1_StoresAgree ==
    \A c \in AllConns : \A r \in DOMAIN activeRooms :
        InRoom(c, r) <=> (HasSession(c) /\ userRoles[c].room = r)

\* C2: every Session's room is the key of a room that exists in the Room
\* Store.
C2_SessionRoomExists ==
    \A c \in DOMAIN userRoles : HasRoom(userRoles[c].room)

\* a cleanup is pending for a room that a Session has joined again
C2_Witness ==
    \E i \in 1..Len(timers) : \E c \in DOMAIN userRoles :
        /\ userRoles[c].room = timers[i].room
        /\ InRoom(c, timers[i].room)

\* C3: a room leaves the Room Store only in a step that fires the cleanup
\* timer of that room, and only if its member set is empty when the timer
\* fires; no join_room or disconnect step removes a room.
C3_OnlyCleanupDeletes ==
    [][\A r \in DOMAIN activeRooms :
          r \notin DOMAIN activeRooms' =>
             /\ Len(timers) > 0
             /\ Head(timers).room = r
             /\ timers' = Tail(timers)
             /\ last'.op = "cleanup"
             /\ Len(activeRooms[r].users) = 0
             /\ userRoles' = userRoles]_vars

\* a cleanup has fired on a room that has members, and the room is still there
C3_Witness ==
    /\ last.op = "cleanup"
    /\ last.res = "kept"
    /\ HasRoom(last.room)
    /\ Len(activeRooms[last.room].users) > 0

\* the disconnect of c takes the last member out of its room
LastMemberLeaves(c) ==
    /\ c \in connected
    /\ c \notin connected'
    /\ HasSession(c)
    /\ HasRoom(userRoles[c].room)
    /\ activeRooms[userRoles[c].room].users = <<c>>

\* C4: when the last member of R disconnects, R is still in the Room Store
\* right after the disconnect handler (with an empty member set and a
\* cleanup pending for it); and when a cleanup of R fires that no join of R
\* has followed, R is not in the Room Store afterwards.
C4_DeferredDelete ==
    [][/\ \A c \in AllConns :
             LastMemberLeaves(c) =>
                /\ userRoles[c].room \in DOMAIN activeRooms'
                /\ activeRooms'[userRoles[c].room].users = <<>>
                /\ timers' = Append(timers,
                        [room |-> userRoles[c].room, rejoined |-> FALSE])
       /\ (Len(timers) > 0 /\ timers' = Tail(timers) /\ ~Head(timers).rejoined)
             => Head(timers).room \notin DOMAIN activeRooms']_vars

\* a cleanup that no join has followed has just deleted its room
C4_Witness ==
    /\ last.op = "cleanup"
    /\ last.res = "deleted"
    /\ ~HasRoom(last.room)

\* C5: every step that takes a room's member set from non-empty to empty
\* schedules a cleanup for that room.
C5_EveryEmptyingSchedules ==
    [][\A r \in DOMAIN activeRooms :
          (/\ Len(activeRooms[r].users) > 0
           /\ r \in DOMAIN activeRooms'
           /\ Len(activeRooms'[r].users) = 0)
          => /\ Len(timers') = Len(timers) + 1
             /\ timers'[Len(timers')].room = r]_vars

---------------------------------------------------------------------------
(* Properties of the message pipeline (specification SpecPipeline) *)

Terminal(e) ==
    e.ev = "processing_status" /\ e.status \in {"complete", "error"}

\* the terminal processing_status events of `log` addressed to `room`
TerminalTo(log, room) ==
    SelectSeq(log, LAMBDA e : Terminal(e) /\ e.to = room)

\* the handler of a message that passed the membership check has just ended
MessageEnded == last.res \in {"complete", "empty", "caught"}

\* C6: a message attempt that passed the membership check (and so broadcast
\* transcribing or translating to its room R) has, when its handler ends,
\* broadcast exactly one terminal processing_status to R.
C6_OneTerminalStatus ==
    MessageEnded => Len(TerminalTo(last.mlog, last.room)) = 1

InSeq(x, s) == \E i \in 1..Len(s) : s[i] = x

\* C7: when a collaborator throws during a message declared for room R, the
\* sender gets a private error event, R gets processing_status error, no
\* translation event is emitted for the message and no collaborator is
\* called a second time.
C7_ThrowHandled ==
    last.res = "caught" =>
        /\ InSeq(ErrorEv(last.conn), last.out)
        /\ InSeq(StatusEv(last.room, "error", "-"), last.out)
        /\ \A i \in 1..Len(last.mlog) : last.mlog[i].ev # "translation"
        /\ \A i, j \in 1..Len(last.calls) :
              last.calls[i].fn = last.calls[j].fn => i = j

\* C8: an audio_message or text_message from a connection without a Session,
\* or whose Session's room is not the declared room, emits one private error
\* to the sender and nothing else: no broadcast, no collaborator call, no
\* suspended handler, and both stores unchanged.
C8_UnauthorizedIsPrivate ==
    [][(/\ last'.op \in {"audio_message", "text_message"}
        /\ ~(HasSession(last'.conn) /\ userRoles[last'.conn].room = last'.room))
       => /\ last'.out = <<ErrorEv(last'.conn)>>
          /\ last'.mlog = <<>>
          /\ last'.calls = <<>>
          /\ msgs' = msgs
          /\ activeRooms' = activeRooms
          /\ userRoles' = userRoles]_vars

\* a message declared for a room other than the one of the sender's Session
\* has just been refused
C8_Witness ==
    /\ last.op \in {"audio_message", "text_message"}
    /\ last.res = "unauthorized"
    /\ HasSession(last.conn)
    /\ userRoles[last.conn].room # last.room
    /\ HasRoom(last.room)

---------------------------------------------------------------------------
(* Properties of the direction of staff messages (specification
   SpecDirection) *)

\* the segment that has just run started the translation call of a message
\* declared as receptionist or admin
StaffTranslateStarted ==
    /\ last.res = "pending"
    /\ last.op \in {"text_message", "transcribe_return"}
    /\ last.role \in {"receptionist", "admin"}

\* the translateText call of the segment that has just run
TranslateCall == last.calls[Len(last.calls)]

RoomGuestLanguage(r) ==
    IF HasRoom(r) THEN activeRooms[r].guestLanguage ELSE null

\* a connection with a guest Session is in the member set of r
GuestPresent(r) ==
    \E c \in DOMAIN userRoles : userRoles[c].role = "guest" /\ InRoom(c, r)

\* C9: a message declared as receptionist or admin has source en-US
\* whatever language it asked for, target the room's resolved guest
\* language when that is not null, and hi-IN when the room has no guest.
C9_StaffDirection ==
    StaffTranslateStarted =>
        /\ TranslateCall.a = StaffLanguage
        /\ RoomGuestLanguage(last.room) # null
              => TranslateCall.b = RoomGuestLanguage(last.room)
        /\ (RoomGuestLanguage(last.room) = null /\ ~GuestPresent(last.room))
              => TranslateCall.b = DefaultGuestLanguage

\* C10: after the disconnect of a guest the room's resolved guest language
\* is null, and a staff message that finds it null (no guest has joined
\* since) has target hi-IN, whoever else is in the room.
C10_GuestGoneDefault ==
    /\ (last.op = "disconnect" /\ last.role = "guest" /\ HasRoom(last.room))
          => RoomGuestLanguage(last.room) = null
    /\ (StaffTranslateStarted /\ HasRoom(last.room)
            /\ RoomGuestLanguage(last.room) = null)
          => TranslateCall.b = DefaultGuestLanguage

---------------------------------------------------------------------------
(* Properties of the room's guest language (specifications Spec and
   SpecDirection) *)

\* C11: a room none of whose members has a guest Session has guest language
\* null, however its guests left it (disconnect, join of another room,
\* re-join under another role).
C11_NoGuestNoLanguage ==
    \A r \in DOMAIN activeRooms :
        ~GuestPresent(r) => activeRooms[r].guestLanguage = null

\* the Session language of the member of `users` with a guest Session that
\* joined last (users is in join order), from index i downwards
RECURSIVE LastGuestLanguage(_, _)
LastGuestLanguage(users, i) ==
    IF i = 0 THEN null
    ELSE IF HasSession(users[i]) /\ userRoles[users[i]].role = "guest"
         THEN userRoles[users[i]].language
         ELSE LastGuestLanguage(users, i - 1)

\* C12: a room with at least one guest among its members has the language of
\* the guest that joined last among those present as its guest language (so
\* after one of two guests disconnects, the language of the other).
C12_LastPresentGuestWins ==
    \A r \in DOMAIN activeRooms :
        GuestPresent(r) =>
            activeRooms[r].guestLanguage =
                LastGuestLanguage(activeRooms[r].users, Len(activeRooms[r].users))

---------------------------------------------------------------------------
(* Properties of join_room and of the room_stats events (specifications
   SpecJoin and Spec) *)

\* a join_room has just stored a Session
Joined == last.op = "join_room" /\ last.res = "joined"

\* C13: the language a join_room stores in the Session is en-US when the
\* role is receptionist or admin, whatever language was requested; for a
\* guest it is the requested language when one was given and hi-IN when the
\* request carried none.
C13_JoinLanguage ==
    Joined =>
        /\ last.role \in {"receptionist", "admin"}
              => userRoles[last.conn].language = StaffLanguage
        /\ (last.role = "guest" /\ Truthy(last.language))
              => userRoles[last.conn].language = last.language
        /\ (last.role = "guest" /\ last.language = undefined)
              => userRoles[last.conn].language = DefaultGuestLanguage

\* C16: a join_room without room or without role emits one private error to
\* the requester and nothing else, and leaves both stores as they were.
C16_InvalidJoinRejected ==
    [][(/\ last'.op = "join_room"
        /\ (~Truthy(last'.room) \/ ~Truthy(last'.role)))
       => /\ last'.out = <<ErrorEv(last'.conn)>>
          /\ userRoles' = userRoles
          /\ activeRooms' = activeRooms]_vars

\* the number of distinct members of room r
MemberCount(r) ==
    Cardinality({activeRooms[r].users[i] : i \in 1..Len(activeRooms[r].users)})

\* C15: every room_stats event a join_room or a disconnect broadcasts
\* carries, as userCount, the number of members the room has once the
\* handler has run.
C15_StatsCountIsCardinality ==
    last.op \in {"join_room", "disconnect"} =>
        \A i \in 1..Len(last.out) :
            last.out[i].ev = "room_stats" =>
                /\ HasRoom(last.out[i].to)
                /\ last.out[i].n = MemberCount(last.out[i].to)

\* a disconnect has just told the members that remain how many they are
C15_Witness ==
    /\ last.op = "disconnect"
    /\ \E i \in 1..Len(last.out) :
          /\ last.out[i].ev = "room_stats"
          /\ last.out[i].n = 1
          /\ MemberCount(last.out[i].to) = 1

---------------------------------------------------------------------------
(* Properties of the direction of guest messages (specification SpecGuest) *)

\* C14: a message declared as guest is translated from the language the
\* message asked for, else from the language of the sender's Session (as
\* the handler read it), else from hi-IN, so never from an empty or null
\* language; and always to en-US.
C14_GuestDirection ==
    \A i \in 1..Len(msgs) :
        (msgs[i].pc = "translate" /\ msgs[i].role = "guest") =>
            /\ msgs[i].src = Or(msgs[i].language,
                                Or(msgs[i].infoLang, DefaultGuestLanguage))
            /\ Truthy(msgs[i].src)
            /\ msgs[i].tgt = StaffLanguage
            /\ InSeq(Call("translateText", msgs[i].src, msgs[i].tgt),
                     msgs[i].calls)

---------------------------------------------------------------------------
(* Properties of the course of one message (specification SpecPipeline) *)

\* C17: an audio message whose transcript is empty broadcasts to its room
\* transcribing and then error, and nothing else: no translating status, no
\* translation, no complete status; translateText is not called.
C17_EmptyTranscript ==
    last.res = "empty" =>
        /\ last.mlog = <<StatusEv(last.room, "transcribing", last.role),
                         StatusEv(last.room, "error", "-")>>
        /\ \A i \in 1..Len(last.calls) : last.calls[i].fn # "translateText"

\* an empty transcript has come back for a guest who has moved to another
\* room in the meantime
C17_Witness ==
    /\ last.op = "transcribe_return"
    /\ last.res = "empty"
    /\ last.role = "guest"
    /\ HasSession(last.conn)
    /\ userRoles[last.conn].room # last.room

\* C18: the disconnect of a sender leaves its suspended handlers in place,
\* and a handler whose sender has no Session any more carries on when its
\* call returns: after transcribeOnce it broadcasts translating to the
\* message's room, after translateText the translation and complete.
C18_CompletesAfterDisconnect ==
    [][/\ \A c \in AllConns :
             (c \in connected /\ c \notin connected') => msgs' = msgs
       /\ (/\ last'.op = "transcribe_return"
           /\ last'.res = "pending"
           /\ last'.conn \notin DOMAIN userRoles')
             => last'.out = <<StatusEv(last'.room, "translating", last'.role)>>
       /\ (/\ last'.op = "translate_return"
           /\ last'.res = "complete"
           /\ last'.conn \notin DOMAIN userRoles')
             => last'.out =
                  <<TranslationEv(last'.room, last'.role,
                                  last'.calls[Len(last'.calls)].a,
                                  last'.calls[Len(last'.calls)].b),
                    StatusEv(last'.room, "complete", "-")>>]_vars

\* translateText has returned for an audio message whose sender has
\* disconnected, in a room that still exists
C18_Witness ==
    /\ last.op = "translate_return"
    /\ last.res = "complete"
    /\ ~HasSession(last.conn)
    /\ last.conn \notin connected
    /\ HasRoom(last.room)
    /\ last.calls[1].fn = "transcribeOnce"

\* C19: the events one message broadcasts to its room are, in this order,
\* transcribing (audio only), translating, the translation, complete; the
\* last two are emitted by one handler segment, with nothing in between.
C19_PipelineOrder ==
    last.res = "complete" =>
        LET tr == TranslationEv(last.room, last.role,
                                TranslateCall.a, TranslateCall.b)
            done == StatusEv(last.room, "complete", "-")
            head == IF last.calls[1].fn = "transcribeOnce"
                    THEN <<StatusEv(last.room, "transcribing", last.role)>>
                    ELSE <<>>
        IN  /\ last.out = <<tr, done>>
            /\ last.mlog =
                 head \o <<StatusEv(last.room, "translating", last.role), tr, done>>

\* an audio message has gone through all four broadcasts
C19_Witness ==
    /\ last.res = "complete"
    /\ Len(last.mlog) = 4
    /\ last.mlog[1].status = "transcribing"

---------------------------------------------------------------------------
(* Properties of the cleanup delay (specification SpecDebounce) *)

\* C20: a room is deleted only when it has been empty for the whole delay:
\* the cleanup that deletes it was scheduled when the room last became
\* empty, so no join of the room has happened since it was scheduled.  All
\* cleanups have the same delay; one that a join has followed fires before
\* the delay has run from the room's latest transition to empty.
C20_DeletedAfterFullDelay ==
    [][\A r \in DOMAIN activeRooms :
          r \notin DOMAIN activeRooms' =>
             /\ Len(timers) > 0
             /\ Head(timers).room = r
             /\ ~Head(timers).rejoined]_vars

---------------------------------------------------------------------------
(* Properties of the languages a message reads (specification
   SpecDirection) *)

\* the audio handler has just called transcribeOnce
TranscribeStarted == last.op = "audio_message" /\ last.res = "pending"

\* C21: transcribeOnce is called with en-US for every audio message not
\* declared as guest, whatever language the message asks for and whatever
\* the sender's Session holds; for a message declared as guest, with the
\* language of the message if it has one, else with the Session's.
C21_SttLanguage ==
    TranscribeStarted =>
        last.calls[1] =
            Call("transcribeOnce",
                 IF last.role = "guest"
                 THEN Or(last.language, userRoles[last.conn].language)
                 ELSE StaffLanguage,
                 "-")

---------------------------------------------------------------------------
(* Properties of staff messages racing with joins and leaves
   (specification SpecRace) *)

\* C22: the target of a staff audio message is resolved from the room as it
\* is in the step that starts translateText (after whatever joined or left
\* while transcribeOnce was pending), and the translation event carries the
\* target of that call.
C22_TargetReadAtTranslateStart ==
    /\ (StaffTranslateStarted /\ last.op = "transcribe_return")
          => TranslateCall.b = getGuestLanguageInRoom(last.room)
    /\ (last.res = "complete" /\ last.role # "guest")
          => /\ last.out[1].ev = "translation"
             /\ last.out[1].tgt = TranslateCall.b

\* transcribeOnce has returned for a message c1 sent as receptionist; while
\* it was pending c1 joined again as guest, after guest c2 (bn-IN), and the
\* target is the language of that last join
C22_Witness ==
    /\ last.op = "transcribe_return"
    /\ last.res = "pending"
    /\ \E i \in 1..Len(msgs) :
          /\ msgs[i].pc = "translate"
          /\ msgs[i].role = "receptionist"
          /\ msgs[i].infoLang = StaffLanguage
          /\ HasSession(msgs[i].conn)
          /\ userRoles[msgs[i].conn].role = "guest"
          /\ msgs[i].tgt = userRoles[msgs[i].conn].language
          /\ \E c \in DOMAIN userRoles :
                /\ InRoom(c, msgs[i].room)
                /\ userRoles[c].role = "guest"
                /\ userRoles[c].language # msgs[i].tgt

---------------------------------------------------------------------------
(* Properties of the role of a message (specification SpecDirection) *)

\* the direction a message of this sender gets when resolved with the role
\* of the sender's Session
SessionDirection ==
    ResolveDirection(last.room, userRoles[last.conn].role, last.language,
                     userRoles[last.conn].language)

\* C23: a message handler works with the role of the sender's Session, not
\* with the role the payload declares: the speaker of what it broadcasts is
\* the Session's role, and the direction of a text message is the one
\* resolved for the Session's role (so a socket that joined as guest gets no
\* translation from en-US as speaker receptionist).
C23_RoleFromSession ==
    (last.op \in {"audio_message", "text_message"} /\ last.res = "pending") =>
        /\ \A i \in 1..Len(last.out) :
              last.out[i].speaker = userRoles[last.conn].role
        /\ last.op = "text_message"
              => TranslateCall = Call("translateText", SessionDirection.src,
                                      SessionDirection.tgt)

=============================================================================
